---- MODULE Spec2Model ----
(***************************************************************************)
(* The RAG orchestration of the NexQA backend: run_rag_query and           *)
(* stream_rag_query (backend/rag_service.py) with the collaborators they   *)
(* call in backend/models.py: query_collection, re_rank_cross_encoders,    *)
(* determine_action and call_llm.  One request is followed from its call   *)
(* to its result; the answers of the vector store, the cross-encoder and   *)
(* the language model are nondeterministic inputs.                         *)
(***************************************************************************)
EXTENDS Integers, Sequences, FiniteSets, TLC

\* ---------------------------------------------------------------- bounds
\* Number of chunks the store holds for the first user.
MaxChunks == 4
\* Largest top_k a request asks for.
MaxTopK == 4
MaxTokens == 2
MaxFiles == 2

\* ------------------------------------------------------ program constants
\* context_docs[:3]
ContextCap == 3
\* top_k=min(3, len(documents)) in re_rank_cross_encoders
RankCap == 3
\* limit=5 of collection.get in query_collection
GetLimit == 5

\* ------------------------------------------------------------- text
\* A text the code post-processes is a sequence of one-character strings.
Whitespace == {" ", "\t", "\n", "\r", "\f"}

UpperSeq == <<"A","B","C","D","E","F","G","H","I","J","K","L","M",
              "N","O","P","Q","R","S","T","U","V","W","X","Y","Z">>
LowerSeq == <<"a","b","c","d","e","f","g","h","i","j","k","l","m",
              "n","o","p","q","r","s","t","u","v","w","x","y","z">>

\* str.lower() on one character
LowerChar(c) ==
    IF \E i \in 1..Len(UpperSeq) : UpperSeq[i] = c
    THEN LowerSeq[CHOOSE i \in 1..Len(UpperSeq) : UpperSeq[i] = c]
    ELSE c

\* str.lower()
lower(s) == [i \in 1..Len(s) |-> LowerChar(s[i])]

\* str.strip(): drops the leading and the trailing whitespace
strip(s) ==
    LET idx == {i \in 1..Len(s) : s[i] \notin Whitespace}
    IN  IF idx = {} THEN <<>>
        ELSE LET first == CHOOSE i \in idx : \A j \in idx : i <= j
                 last  == CHOOSE i \in idx : \A j \in idx : j <= i
             IN  SubSeq(s, first, last)

\* The Python string a sequence of characters spells.
RECURSIVE Str(_)
Str(s) == IF s = <<>> THEN "" ELSE Head(s) \o Str(Tail(s))

\* docs[:n]
Take(docs, n) == SubSeq(docs, 1, IF Len(docs) < n THEN Len(docs) ELSE n)

\* "\n\n".join(docs)
RECURSIVE Join(_)
Join(docs) ==
    IF docs = <<>> THEN ""
    ELSE IF Len(docs) = 1 THEN docs[1]
    ELSE docs[1] \o "\n\n" \o Join(Tail(docs))

\* Optional[str]: None, or a string
None == [some |-> FALSE, val |-> ""]
Some(s) == [some |-> TRUE, val |-> s]
\* the override honoured only for the bare action names
TruthyKnown(o) ==
    o.some /\ o.val \in {"ask", "summary", "testcase_excel", "validate", "test_strategy", "risk"}

\* Python truthiness of an Optional[str]: None and "" are falsy
Truthy(o) == o.some /\ o.val # ""

\* ------------------------------------------------------- vector store
Users == {"harry", "mcp_user"}

\* One stored chunk, as add_to_vector_collection writes it.
Chunk(user, file_name, idx, text) ==
    [id       |-> user \o "_" \o file_name \o "_" \o ToString(idx),
     document |-> text,
     metadata |-> [file_name |-> file_name, user_id |-> user]]

\* The store the requests run against, in storage order.
StoredChunks ==
    [i \in 1..MaxChunks |-> Chunk("harry", "spec.pdf", i - 1, "c" \o ToString(i))]
    \o <<Chunk("mcp_user", "notes.txt", 0, "n1")>>

\* the store read without the where filter
UserChunksAll(store, user) == store

\* where={"user_id": user_id}
UserChunks(store, user) == SelectSeq(store, LAMBDA c : c.metadata.user_id = user)

\* The elements of s at the indices in I, in the order of s.
RECURSIVE PickSeq(_, _)
PickSeq(s, I) ==
    IF I = {} THEN <<>>
    ELSE LET m == CHOOSE i \in I : \A j \in I : i <= j
         IN  <<s[m]>> \o PickSeq(s, I \ {m})

\* collection.query(query_texts=[prompt], n_results=n, where={"user_id": user}):
\* it raises, or answers without a documents list, or answers with up to n
\* chunks of the user, nearest first (one inner list for the one query text).
QueryAnswers(store, user, n) ==
    LET mine == UserChunks(store, user)
        hits(I) == PickSeq(mine, I)
    IN  {[ok |-> FALSE, documents |-> <<>>, metadatas |-> <<>>, distances |-> <<>>]}
        \cup {[ok |-> TRUE, documents |-> <<>>, metadatas |-> <<>>, distances |-> <<>>]}
        \cup {[ok        |-> TRUE,
               documents |-> << [i \in 1..Len(hits(I)) |-> hits(I)[i].document] >>,
               metadatas |-> << [i \in 1..Len(hits(I)) |-> hits(I)[i].metadata] >>,
               distances |-> << [i \in 1..Len(hits(I)) |-> i] >>] :
              I \in {J \in SUBSET (1..Len(mine)) : Cardinality(J) <= n}}

\* collection.get(where={"user_id": user}, limit=5, include=[...]): it raises,
\* or answers with the first chunks of the user; a get carries no distances.
GetAnswers(store, user) ==
    LET mine == Take(UserChunks(store, user), GetLimit)
    IN  {[ok |-> FALSE, documents |-> <<>>, metadatas |-> <<>>, distances |-> <<>>],
         [ok        |-> TRUE,
          documents |-> [i \in 1..Len(mine) |-> mine[i].document],
          metadatas |-> [i \in 1..Len(mine) |-> mine[i].metadata],
          distances |-> <<>>]}

\* query_collection, after the gateway answered: formatted_results.
query_collection(results, all_results) ==
    IF results.documents # <<>> /\ Len(results.documents) > 0
    THEN [i \in 1..Len(results.documents[1]) |->
            [content  |-> results.documents[1][i],
             metadata |-> results.metadatas[1][i],
             distance |-> IF results.distances # <<>> THEN results.distances[1][i] ELSE 0]]
    ELSE [i \in 1..Len(all_results.documents) |->
            [content  |-> all_results.documents[i],
             metadata |-> all_results.metadatas[i],
             distance |-> IF all_results.distances # <<>> THEN all_results.distances[i] ELSE 0]]

\* Every way one query_collection(prompt, user, n_results=n) call can end:
\* ok = FALSE when a gateway call raised, else the passages it returns.
QueryCollectionOutcomes(store, user, n) ==
    LET NoGet == [ok |-> TRUE, documents |-> <<>>, metadatas |-> <<>>, distances |-> <<>>]
    IN  {[ok |-> FALSE, passages |-> <<>>] :
            r \in {a \in QueryAnswers(store, user, n) : ~a.ok}}
        \cup {[ok |-> TRUE, passages |-> query_collection(r, NoGet)] :
            r \in {a \in QueryAnswers(store, user, n) : a.ok /\ a.documents # <<>>}}
        \cup UNION {
              {IF g.ok THEN [ok |-> TRUE, passages |-> query_collection(r, g)]
                       ELSE [ok |-> FALSE, passages |-> <<>>] :
                  g \in GetAnswers(store, user)} :
              r \in {a \in QueryAnswers(store, user, n) : a.ok /\ a.documents = <<>>}}

\* What a call gives back: a value, or an exception.
Ret(v) == [raised |-> FALSE, value |-> v]
Raise(e) == [raised |-> TRUE, value |-> e]

\* ---------------------------------------------------------- templates
\* the registry without test_case among the aliases of testcase_excel
prompt_templates_unaliased == <<
    [type |-> "ask",
     aliases |-> <<"question", "answer", "general">>,
     sys_prompt |-> "qa_prompt",
     spl_prompt |-> "Provide a comprehensive answer based on the context."],
    [type |-> "summary",
     aliases |-> <<"summarize", "summarise", "overview">>,
     sys_prompt |-> "qa_prompt",
     spl_prompt |-> "Summarize the context in concise bullet points or paragraphs."],
    [type |-> "testcase_excel",
     aliases |-> <<"excel", "xlsx", "test_case_excel", "testcase", "test_cases",
                   "tc", "generate test">>,
     sys_prompt |-> "qa_testcase_prompt",
     spl_prompt |-> "qa_testcase_prompt"],
    [type |-> "validate",
     aliases |-> <<"validate test", "check test", "review test", "improve test">>,
     sys_prompt |-> "qa_testcase_validate_prompt",
     spl_prompt |-> "qa_testcase_validate_prompt"],
    [type |-> "test_strategy",
     aliases |-> <<"strategy", "test plan", "test approach", "test scope">>,
     sys_prompt |-> "qa_strategy_prompt",
     spl_prompt |-> "qa_strategy_prompt"],
    [type |-> "risk",
     aliases |-> <<"risk assessment", "risk analysis", "potential risk">>,
     sys_prompt |-> "qa_risk_prompt",
     spl_prompt |-> "qa_risk_prompt"] >>

\* prompt_templates of run_rag_query and stream_rag_query (the same list);
\* a prompt text is named by the variable of prompts.py that holds it.
prompt_templates == <<
    [type |-> "ask",
     aliases |-> <<"question", "answer", "general">>,
     sys_prompt |-> "qa_prompt",
     spl_prompt |-> "Provide a comprehensive answer based on the context."],
    [type |-> "summary",
     aliases |-> <<"summarize", "summarise", "overview">>,
     sys_prompt |-> "qa_prompt",
     spl_prompt |-> "Summarize the context in concise bullet points or paragraphs."],
    [type |-> "testcase_excel",
     aliases |-> <<"excel", "xlsx", "test_case_excel", "testcase", "test_cases",
                   "tc", "generate test", "test_case">>,
     sys_prompt |-> "qa_testcase_prompt",
     spl_prompt |-> "qa_testcase_prompt"],
    [type |-> "validate",
     aliases |-> <<"validate test", "check test", "review test", "improve test">>,
     sys_prompt |-> "qa_testcase_validate_prompt",
     spl_prompt |-> "qa_testcase_validate_prompt"],
    [type |-> "test_strategy",
     aliases |-> <<"strategy", "test plan", "test approach", "test scope">>,
     sys_prompt |-> "qa_strategy_prompt",
     spl_prompt |-> "qa_strategy_prompt"],
    [type |-> "risk",
     aliases |-> <<"risk assessment", "risk analysis", "potential risk">>,
     sys_prompt |-> "qa_risk_prompt",
     spl_prompt |-> "qa_risk_prompt"] >>

\* x in list
InList(x, list) == \E i \in 1..Len(list) : list[i] = x

\* next(generator, None) over the elements a test keeps: the first, if any
First(hits) == IF hits = <<>> THEN <<>> ELSE <<hits[1]>>

\* select_action handing an unmatched intent through as its own template
select_action_passthrough(templates, action) ==
    LET exact == First(SelectSeq(templates, LAMBDA a : a.type = action))
        alias == First(SelectSeq(templates, LAMBDA a : InList(action, a.aliases)))
        ask   == First(SelectSeq(templates, LAMBDA a : a.type = "ask"))
    IN  IF exact # <<>> THEN Ret(exact[1])
        ELSE IF alias # <<>> THEN Ret(alias[1])
        ELSE IF ask # <<>> THEN Ret([ask[1] EXCEPT !.type = action])
        ELSE Raise("StopIteration")

\* select_action without its alias tier
select_action_no_alias(templates, action) ==
    LET exact == First(SelectSeq(templates, LAMBDA a : a.type = action))
        ask   == First(SelectSeq(templates, LAMBDA a : a.type = "ask"))
    IN  IF exact # <<>> THEN Ret(exact[1])
        ELSE IF ask # <<>> THEN Ret(ask[1])
        ELSE Raise("StopIteration")

\* Template selection: exact type, then alias, then the ask template; the
\* last next() has no default and raises StopIteration without one.
select_action(templates, action) ==
    LET exact == First(SelectSeq(templates, LAMBDA a : a.type = action))
        alias == First(SelectSeq(templates, LAMBDA a : InList(action, a.aliases)))
        ask   == First(SelectSeq(templates, LAMBDA a : a.type = "ask"))
    IN  IF exact # <<>> THEN Ret(exact[1])
        ELSE IF alias # <<>> THEN Ret(alias[1])
        ELSE IF ask # <<>> THEN Ret(ask[1])
        ELSE Raise("StopIteration")

\* ---------------------------------------------------------- classifier
valid_actions == <<"ask", "summary", "testcase_excel", "test_case", "validate",
                   "test_strategy", "risk">>

\* determine_action without its check against valid_actions
determine_action_unchecked(reply) ==
    IF ~reply.ok THEN Ret("ask")
    ELSE Ret(Str(lower(strip(reply.content))))

\* determine_action letting the failure of the model call escape
determine_action_raising(reply) ==
    IF ~reply.ok THEN Raise("Ollama LLM call failed")
    ELSE LET action == Str(lower(strip(reply.content)))
         IN  IF ~InList(action, valid_actions) THEN Ret("ask") ELSE Ret(action)

\* determine_action, given what ollama.chat did: reply.ok = FALSE when the
\* call raised, else reply.content is the message content.
determine_action(reply) ==
    IF ~reply.ok THEN Ret("ask")
    ELSE LET action == Str(lower(strip(reply.content)))
         IN  IF ~InList(action, valid_actions) THEN Ret("ask") ELSE Ret(action)

\* ------------------------------------------------------------ re-rank
\* rank() asked for every document instead of the top min(3, n)
RankAnswersUncapped(n) ==
    {[kind |-> "unavailable", ranks |-> <<>>], [kind |-> "raised", ranks |-> <<>>]}
    \cup {[kind |-> "ranked", ranks |-> r] :
            r \in {f \in [1..n -> 0..(n - 1)] :
                      \A i, j \in 1..n : i # j => f[i] # f[j]}}

\* What the cross-encoder does for n documents: the import fails, loading
\* or scoring raises, or rank() answers the top min(3, n) corpus ids (from 0).
RankAnswers(n) ==
    LET m == IF n < RankCap THEN n ELSE RankCap
    IN  {[kind |-> "unavailable", ranks |-> <<>>], [kind |-> "raised", ranks |-> <<>>]}
        \cup {[kind |-> "ranked", ranks |-> r] :
                r \in {f \in [1..m -> 0..(n - 1)] :
                          \A i, j \in 1..m : i # j => f[i] # f[j]}}

\* re_rank_cross_encoders handing back its unfinished ranked_docs when scoring raises
re_rank_cross_encoders_partial(documents, answer) ==
    IF documents = <<>> THEN Ret(<<>>)
    ELSE IF answer.kind = "unavailable" THEN Ret(documents)
    ELSE IF answer.kind = "raised" THEN Ret(<<>>)
    ELSE Ret([i \in 1..Len(answer.ranks) |-> documents[answer.ranks[i] + 1]])

\* re_rank_cross_encoders(query, documents), given what the cross-encoder did
re_rank_cross_encoders(documents, answer) ==
    IF documents = <<>> THEN Ret(<<>>)
    ELSE IF answer.kind = "unavailable" THEN Ret(documents)
    ELSE IF answer.kind = "raised" THEN Ret(documents)
    ELSE Ret([i \in 1..Len(answer.ranks) |-> documents[answer.ranks[i] + 1]])

\* --------------------------------------------------------- generation
Marker1 == <<"-","-","-","C","O","N","T","E","X","T"," ","S","T","A","R","T","-","-","-">>
Marker2 == <<"-","-","-","Q","U","E","S","T","I","O","N"," ","S","T","A","R","T","-","-","-">>
Cue == <<"N","o","w"," ","p","r","o","v","i","d","e"," ","y","o","u","r"," ","r","e","s","p","o","n","s","e",":">>

\* sub in s, for sequences of characters
Contains(s, sub) ==
    \E i \in 1..(Len(s) - Len(sub) + 1) : SubSeq(s, i, i + Len(sub) - 1) = sub

\* s.split(sub, 1)[1]: what follows the first occurrence of sub
AfterFirst(s, sub) ==
    LET at == {i \in 1..(Len(s) - Len(sub) + 1) : SubSeq(s, i, i + Len(sub) - 1) = sub}
        i0 == CHOOSE i \in at : \A j \in at : i <= j
    IN  SubSeq(s, i0 + Len(sub), Len(s))

NoResponse == "No response generated. Please try again or provide more context."

\* call_llm in offline mode, given what ollama.chat did
call_llm(reply) ==
    IF ~reply.ok THEN Raise("Ollama LLM call failed")
    ELSE LET raw == reply.content
             cut == IF (Contains(raw, Marker1) \/ Contains(raw, Marker2))
                       /\ Contains(raw, Cue)
                    THEN strip(AfterFirst(raw, Cue)) ELSE raw
             result == Str(strip(cut))
         IN  IF result = "" THEN Ret(NoResponse) ELSE Ret(result)

\* call_llm_stream: hands back a lazy token sequence, or raises
call_llm_stream(opened) ==
    IF opened THEN Ret("stream") ELSE Raise("Ollama LLM call failed")

\* ------------------------------------------------------------- inputs
Queries == {"foo"}
TopKs == {1, MaxTopK}
ForceTypes ==
    {None, Some(""), Some("risk"), Some("excel"), Some("generate test"),
     Some("test_case"), Some("qa"), Some("Risk"), Some(" Risk\n")}

\* What the model may answer to the decision prompt.
ClassifierContents == {
    <<"r","i","s","k">>,
    <<" ","R","i","s","k","\n">>,
    <<"b","a","n","a","n","a">>,
    <<"g","e","n","e","r","a","t","e"," ","t","e","s","t">>,
    <<"t","e","s","t","_","c","a","s","e">>,
    <<"T","E","S","T","C","A","S","E","_","E","X","C","E","L">>,
    <<"s","u","m","m","a","r","y">>,
    <<"\t","V","a","l","i","d","a","t","e"," ">>,
    <<"t","e","s","t","_","s","t","r","a","t","e","g","y"," ">>,
    <<"a","s","k">>,
    <<>>}
ClassifierReplies ==
    {[ok |-> FALSE, content |-> <<>>]}
    \cup {[ok |-> TRUE, content |-> c] : c \in ClassifierContents}

\* What the model may answer to the generation prompt.
GenerationContents == {
    <<" ","a","n"," ","a","n","s","w","e","r","\n">>,
    <<" "," ">>,
    <<"-","-","-","C","O","N","T","E","X","T"," ","S","T","A","R","T","-","-","-","\n","N","o","w"," ","p","r","o","v","i","d","e"," ","y","o","u","r"," ","r","e","s","p","o","n","s","e",":"," ","o","k">>}
GenerationReplies ==
    {[ok |-> FALSE, content |-> <<>>]}
    \cup {[ok |-> TRUE, content |-> c] : c \in GenerationContents}

\* The literal of the empty-retrieval fallback.
FallbackQuery == "about"

\* -------------------------------------------------------------- state
VARIABLES
    collection,         \* the vector store
    pc,                 \* where the request stands
    op,                 \* "run" (run_rag_query) or "stream" (stream_rag_query)
    args,               \* query_text, user_id, force_type, top_k, use_reranking
    context_results,    \* passages of the retrieval in use
    context_docs,       \* their contents, re-ranked when the gate opened
    context,            \* the context string
    determined_action,  \* the resolved intent string
    selected_action,    \* the selected template
    result,             \* the returned payload
    error,              \* the callee whose exception escaped, if any
    calls,              \* the collaborator calls made so far, in order
    hpc,                \* where the rag_query_stream handler stands
    hreq,               \* the handler's request data
    hresult,            \* the payload stream_rag_query returned to the handler
    yielded,            \* the fragments the token sequence has yielded
    full_response,      \* the handler's accumulated response text
    events,             \* the server-sent events emitted so far, in order
    parked,             \* the frame of the preempted call, when two are in flight
    last,               \* the latest call made on the store and what it gave back
    ledger              \* per (user_id, file_name), the splits last ingested for it

\* the state outside the frame of one run_rag_query / stream_rag_query call
outer == <<hpc, hreq, hresult, yielded, full_response, events, parked, last, ledger>>

vars == <<collection, pc, op, args, context_results, context_docs, context,
          determined_action, selected_action, result, error, calls, outer>>

NoArgs == [query_text |-> "", user_id |-> "", force_type |-> None,
           top_k |-> 0, use_reranking |-> FALSE]
NoTemplate == [type |-> "", aliases |-> <<>>, sys_prompt |-> "", spl_prompt |-> ""]
NoResult == [query |-> "", type |-> "", context_chunks |-> 0, sources |-> <<>>]

\* ------------------------------------------------ ingestion and search
\* the users, file names and splits the store operations choose from
StoreUsers == {"mcp_user", "mcp"}
FileNames == {"x.txt", "user_x.txt"}
Splits == {<<"d1">>, <<"d2", "d1">>}
SearchTopKs == {1, 2}
\* the (user_id, file_name) pairs that get ingested
IngestPairs == {<<"mcp_user", "x.txt">>, <<"mcp", "user_x.txt">>, <<"mcp", "x.txt">>}

\* no store operation yet; nothing ingested yet
NoCall == [fn |-> "none"]
NoIngests == [p \in StoreUsers \X FileNames |-> <<>>]

\* collection.upsert(documents, metadatas, ids): a chunk whose id is stored
\* replaces the stored one, any other is added
RECURSIVE upsert(_, _)
upsert(store, chunks) ==
    IF chunks = <<>> THEN store
    ELSE LET c    == Head(chunks)
             held == {i \in 1..Len(store) : store[i].id = c.id}
         IN  upsert(IF held # {}
                    THEN [i \in 1..Len(store) |-> IF i \in held THEN c ELSE store[i]]
                    ELSE Append(store, c),
                    Tail(chunks))

\* the chunks add_to_vector_collection builds from all_splits
ChunksOf(all_splits, file_name, user_id) ==
    [k \in 1..Len(all_splits) |-> Chunk(user_id, file_name, k - 1, all_splits[k])]

\* add_to_vector_collection(all_splits, file_name, user_id): the store after it
add_to_vector_collection(store, all_splits, file_name, user_id) ==
    upsert(store, ChunksOf(all_splits, file_name, user_id))

\* list_vector_sources(user_id): the file names of the user's chunks, each
\* once (a set in the code, listed here in the order first met)
RECURSIVE list_vector_sources(_, _)
list_vector_sources(store, user_id) ==
    IF store = <<>> THEN <<>>
    ELSE LET rest   == list_vector_sources(SubSeq(store, 1, Len(store) - 1), user_id)
             meta   == store[Len(store)].metadata
         IN  IF meta.user_id # user_id THEN rest
             ELSE IF meta.file_name = "" \/ InList(meta.file_name, rest) THEN rest
             ELSE Append(rest, meta.file_name)

\* the parameters of query_collection and the keywords its callers pass
query_collection_params == {"prompt", "user_id", "n_results"}
search_keywords == {"top_k"}
search_documents_keywords == {"n_results"}

\* a call binds when every keyword names a parameter; else TypeError
CallBinds(params, keywords) == keywords \subseteq params

\* the frame of a call of run_rag_query / stream_rag_query that has not begun
NoFrame ==
    [pc |-> "idle", op |-> "none", args |-> NoArgs, context_results |-> <<>>,
     context_docs |-> <<>>, context |-> "", determined_action |-> "",
     selected_action |-> NoTemplate, result |-> NoResult, error |-> "none",
     calls |-> <<>>]

Init ==
    /\ collection = StoredChunks
    /\ pc = "idle"
    /\ op = "none"
    /\ args = NoArgs
    /\ context_results = <<>>
    /\ context_docs = <<>>
    /\ context = ""
    /\ determined_action = ""
    /\ selected_action = NoTemplate
    /\ result = NoResult
    /\ error = "none"
    /\ calls = <<>>
    /\ hpc = "none"
    /\ hreq = NoArgs
    /\ hresult = NoResult
    /\ yielded = <<>>
    /\ full_response = ""
    /\ events = <<>>
    /\ parked = NoFrame
    /\ last = NoCall
    /\ ledger = NoIngests

\* ------------------------------------------------- orchestrator steps
\* the fallback gate firing on a thin retrieval too
NeedsFallbackThin(results) == Len(results) < 2

\* `if not context_results:` after the first retrieval
NeedsFallback(results) == results = <<>>

\* context_docs = [result["content"] for result in context_results]
ContextDocs(results) == [i \in 1..Len(results) |-> results[i].content]

\* the first context joined without the [:3]
build_context_uncut(docs) == IF docs # <<>> THEN Join(docs) ELSE ""

\* context = "\n\n".join(context_docs[:3]) if context_docs else ""
build_context(docs) == IF docs # <<>> THEN Join(Take(docs, ContextCap)) ELSE ""

\* the gate opening for a single passage too
rerank_gate_nonempty(use_reranking, docs) == use_reranking /\ Len(docs) > 0

\* `if use_reranking and len(context_docs) > 1:`
rerank_gate(use_reranking, docs) == use_reranking /\ Len(docs) > 1

\* the re-ranked context joined without the [:3]
reranked_context_uncut(docs) == Join(docs)

\* context = "\n\n".join(context_docs[:3]) after re-ranking
reranked_context(docs) == Join(Take(docs, ContextCap))

\* the payload reporting the context subset as its sources
RagResultTruncated(query_text, template, results, response) ==
    [query          |-> query_text,
     type           |-> template.type,
     context_chunks |-> IF results # <<>> THEN Len(results) ELSE 0,
     response       |-> response,
     sources        |-> Take(results, ContextCap)]

\* the dict run_rag_query returns
RagResult(query_text, template, results, response) ==
    [query          |-> query_text,
     type           |-> template.type,
     context_chunks |-> IF results # <<>> THEN Len(results) ELSE 0,
     response       |-> response,
     sources        |-> results]

\* the streaming payload reporting the context subset as its sources
StreamResultTruncated(query_text, template, results, stream) ==
    [query          |-> query_text,
     type           |-> template.type,
     context_chunks |-> IF results # <<>> THEN Len(results) ELSE 0,
     sources        |-> Take(results, ContextCap),
     stream         |-> stream]

\* the dict stream_rag_query returns
StreamResult(query_text, template, results, stream) ==
    [query          |-> query_text,
     type           |-> template.type,
     context_chunks |-> IF results # <<>> THEN Len(results) ELSE 0,
     sources        |-> results,
     stream         |-> stream]

\* An exception leaves the function: nothing is returned.
Fail(callee) ==
    /\ pc' = "failed"
    /\ error' = callee

\* A caller calls run_rag_query or stream_rag_query.
Request(o, q, u, ft, k, rr) ==
    /\ pc = "idle"
    /\ op' = o
    /\ args' = [query_text |-> q, user_id |-> u, force_type |-> ft,
                top_k |-> k, use_reranking |-> rr]
    /\ pc' = "retrieve"
    /\ UNCHANGED <<outer, collection, context_results, context_docs, context,
                   determined_action, selected_action, result, error, calls>>

\* the first retrieval going on to the fallback query when it raises
RetrieveRetrying ==
    /\ pc = "retrieve"
    /\ \E out \in QueryCollectionOutcomes(collection, args.user_id, args.top_k) :
         /\ calls' = Append(calls,
                [fn |-> "query_collection", prompt |-> args.query_text,
                 user_id |-> args.user_id, n_results |-> args.top_k,
                 raised |-> ~out.ok, ret |-> out.passages])
         /\ IF ~out.ok
            THEN pc' = "fallback" /\ UNCHANGED <<context_results, error>>
            ELSE /\ context_results' = out.passages
                 /\ pc' = IF NeedsFallback(out.passages) THEN "fallback" ELSE "context"
                 /\ UNCHANGED error
    /\ UNCHANGED <<outer, collection, op, args, context_docs, context, determined_action,
                   selected_action, result>>

\* context_results = query_collection(query_text, user_id, n_results=top_k)
Retrieve ==
    /\ pc = "retrieve"
    /\ \E out \in QueryCollectionOutcomes(collection, args.user_id, args.top_k) :
         /\ calls' = Append(calls,
                [fn |-> "query_collection", prompt |-> args.query_text,
                 user_id |-> args.user_id, n_results |-> args.top_k,
                 raised |-> ~out.ok, ret |-> out.passages])
         /\ IF ~out.ok
            THEN Fail("query_collection") /\ UNCHANGED context_results
            ELSE /\ context_results' = out.passages
                 /\ pc' = IF NeedsFallback(out.passages) THEN "fallback" ELSE "context"
                 /\ UNCHANGED error
    /\ UNCHANGED <<outer, collection, op, args, context_docs, context, determined_action,
                   selected_action, result>>

\* the fallback retrieval rebinding query_text to the fallback term
FallbackRetrieveRebinding ==
    /\ pc = "fallback"
    /\ \E out \in QueryCollectionOutcomes(collection, args.user_id, args.top_k) :
         /\ calls' = Append(calls,
                [fn |-> "query_collection", prompt |-> FallbackQuery,
                 user_id |-> args.user_id, n_results |-> args.top_k,
                 raised |-> ~out.ok, ret |-> out.passages])
         /\ IF ~out.ok
            THEN Fail("query_collection") /\ UNCHANGED context_results
            ELSE /\ context_results' = out.passages
                 /\ pc' = "context"
                 /\ UNCHANGED error
    /\ args' = [args EXCEPT !.query_text = FallbackQuery]
    /\ UNCHANGED <<outer, collection, op, context_docs, context, determined_action,
                   selected_action, result>>

\* context_results = query_collection("about", user_id, n_results=top_k)
FallbackRetrieve ==
    /\ pc = "fallback"
    /\ \E out \in QueryCollectionOutcomes(collection, args.user_id, args.top_k) :
         /\ calls' = Append(calls,
                [fn |-> "query_collection", prompt |-> FallbackQuery,
                 user_id |-> args.user_id, n_results |-> args.top_k,
                 raised |-> ~out.ok, ret |-> out.passages])
         /\ IF ~out.ok
            THEN Fail("query_collection") /\ UNCHANGED context_results
            ELSE /\ context_results' = out.passages
                 /\ pc' = "context"
                 /\ UNCHANGED error
    /\ UNCHANGED <<outer, collection, op, args, context_docs, context, determined_action,
                   selected_action, result>>

\* context_docs and the first context, then the re-rank gate
BuildContext ==
    /\ pc = "context"
    /\ context_docs' = IF context_results # <<>> THEN ContextDocs(context_results) ELSE <<>>
    /\ context' = build_context(context_docs')
    /\ pc' = IF rerank_gate(args.use_reranking, context_docs') THEN "rerank" ELSE "resolve"
    /\ UNCHANGED <<outer, collection, op, args, context_results, determined_action,
                   selected_action, result, error, calls>>

\* context_docs = re_rank_cross_encoders(query_text, context_docs) and the new context
Rerank ==
    /\ pc = "rerank"
    /\ \E answer \in RankAnswers(Len(context_docs)) :
         LET r == re_rank_cross_encoders(context_docs, answer)
         IN  /\ calls' = Append(calls,
                    [fn |-> "re_rank_cross_encoders", query |-> args.query_text,
                     documents |-> context_docs, answer |-> answer.kind,
                     raised |-> r.raised, ret |-> IF r.raised THEN <<>> ELSE r.value])
             /\ IF r.raised
                THEN Fail("re_rank_cross_encoders") /\ UNCHANGED <<context_docs, context>>
                ELSE /\ context_docs' = r.value
                     /\ context' = reranked_context(r.value)
                     /\ pc' = "resolve"
                     /\ UNCHANGED error
    /\ UNCHANGED <<outer, collection, op, args, context_results, determined_action,
                   selected_action, result>>

\* the forced type trimmed and lowercased as the classifier's answer is
ResolveForcedFolded ==
    /\ pc = "resolve"
    /\ Truthy(args.force_type)
    /\ determined_action' = IF args.force_type.val \in {"Risk", " Risk\n"} THEN "risk"
                            ELSE args.force_type.val
    /\ pc' = "select"
    /\ UNCHANGED <<outer, collection, op, args, context_results, context_docs, context,
                   selected_action, result, error, calls>>

\* `if force_type: determined_action = force_type`
ResolveForced ==
    /\ pc = "resolve"
    /\ Truthy(args.force_type)
    /\ determined_action' = args.force_type.val
    /\ pc' = "select"
    /\ UNCHANGED <<outer, collection, op, args, context_results, context_docs, context,
                   selected_action, result, error, calls>>

\* the classifier handed the context built before re-ranking
ClassifyOnFirstContext ==
    /\ pc = "resolve"
    /\ ~Truthy(args.force_type)
    /\ \E reply \in ClassifierReplies :
         LET r == determine_action(reply)
         IN  /\ calls' = Append(calls,
                    [fn |-> "determine_action", user_query |-> args.query_text,
                     context |-> build_context(ContextDocs(context_results)), reply |-> reply,
                     raised |-> r.raised, ret |-> IF r.raised THEN "" ELSE r.value])
             /\ IF r.raised
                THEN Fail("determine_action") /\ UNCHANGED determined_action
                ELSE /\ determined_action' = r.value
                     /\ pc' = "select"
                     /\ UNCHANGED error
    /\ UNCHANGED <<outer, collection, op, args, context_results, context_docs, context,
                   selected_action, result>>

\* `else: determined_action = determine_action(query_text, context)`
Classify ==
    /\ pc = "resolve"
    /\ ~Truthy(args.force_type)
    /\ \E reply \in ClassifierReplies :
         LET r == determine_action(reply)
         IN  /\ calls' = Append(calls,
                    [fn |-> "determine_action", user_query |-> args.query_text,
                     context |-> context, reply |-> reply,
                     raised |-> r.raised, ret |-> IF r.raised THEN "" ELSE r.value])
             /\ IF r.raised
                THEN Fail("determine_action") /\ UNCHANGED determined_action
                ELSE /\ determined_action' = r.value
                     /\ pc' = "select"
                     /\ UNCHANGED error
    /\ UNCHANGED <<outer, collection, op, args, context_results, context_docs, context,
                   selected_action, result>>

\* the three-tier template lookup
Select ==
    /\ pc = "select"
    /\ LET r == select_action(prompt_templates, determined_action)
       IN  IF r.raised
           THEN Fail("select_action") /\ UNCHANGED selected_action
           ELSE /\ selected_action' = r.value
                /\ pc' = "generate"
                /\ UNCHANGED error
    /\ UNCHANGED <<outer, collection, op, args, context_results, context_docs, context,
                   determined_action, result, calls>>

\* generation tried again after a failure
GenerateRetrying ==
    /\ pc = "generate"
    /\ op = "run"
    /\ \E reply \in GenerationReplies :
         LET r == call_llm(reply)
         IN  /\ calls' = Append(calls,
                    [fn |-> "call_llm", context |-> context,
                     sysprompt |-> selected_action.sys_prompt,
                     prompt |-> args.query_text,
                     spl_prompt |-> selected_action.spl_prompt,
                     raised |-> r.raised])
             /\ IF r.raised
                THEN UNCHANGED <<pc, error, result>>
                ELSE /\ result' = RagResult(args.query_text, selected_action,
                                            context_results, r.value)
                     /\ pc' = "done"
                     /\ UNCHANGED error
    /\ UNCHANGED <<outer, collection, op, args, context_results, context_docs, context,
                   determined_action, selected_action>>

\* run_rag_query: response = call_llm(...) and the returned payload
Generate ==
    /\ pc = "generate"
    /\ op = "run"
    /\ \E reply \in GenerationReplies :
         LET r == call_llm(reply)
         IN  /\ calls' = Append(calls,
                    [fn |-> "call_llm", context |-> context,
                     sysprompt |-> selected_action.sys_prompt,
                     prompt |-> args.query_text,
                     spl_prompt |-> selected_action.spl_prompt,
                     raised |-> r.raised])
             /\ IF r.raised
                THEN Fail("call_llm") /\ UNCHANGED result
                ELSE /\ result' = RagResult(args.query_text, selected_action,
                                            context_results, r.value)
                     /\ pc' = "done"
                     /\ UNCHANGED error
    /\ UNCHANGED <<outer, collection, op, args, context_results, context_docs, context,
                   determined_action, selected_action>>

\* stream_rag_query: stream = call_llm_stream(...) and the returned payload
OpenStream ==
    /\ pc = "generate"
    /\ op = "stream"
    /\ \E opened \in BOOLEAN :
         LET r == call_llm_stream(opened)
         IN  /\ calls' = Append(calls,
                    [fn |-> "call_llm_stream", context |-> context,
                     sysprompt |-> selected_action.sys_prompt,
                     prompt |-> args.query_text,
                     spl_prompt |-> selected_action.spl_prompt,
                     raised |-> r.raised])
             /\ IF r.raised
                THEN Fail("call_llm_stream") /\ UNCHANGED result
                ELSE /\ result' = StreamResult(args.query_text, selected_action,
                                               context_results, r.value)
                     /\ pc' = "done"
                     /\ UNCHANGED error
    /\ UNCHANGED <<outer, collection, op, args, context_results, context_docs, context,
                   determined_action, selected_action>>

Next ==
    \/ \E o \in {"run", "stream"}, q \in Queries, u \in Users, ft \in ForceTypes,
          k \in TopKs, rr \in BOOLEAN : Request(o, q, u, ft, k, rr)
    \/ Retrieve
    \/ FallbackRetrieve
    \/ BuildContext
    \/ Rerank
    \/ ResolveForced
    \/ Classify
    \/ Select
    \/ Generate
    \/ OpenStream

Spec == Init /\ [][Next]_vars

\* --------------------------------------------- streaming HTTP handler
\* rag_query_stream (POST /api/query/rag/stream) and its generator generate().
\* hpc is the handler's position: none, calling (inside stream_rag_query),
\* refused (the 500 answer), tokens (iterating result["stream"]), fallback
\* (inside run_rag_query), finishing (about to yield done), closed.

\* the fragments the token sequence may yield
Tokens == {"", "a", "b"}
StreamForceTypes == {None, Some("excel")}

get_user_id == "harry"

\* _sse_event(event, data)
_sse_event(event, data) == [event |-> event, data |-> data]

\* the handler reads the request and calls stream_rag_query
rag_query_stream(q, ft, k, rr) ==
    /\ hpc = "none"
    /\ pc = "idle"
    /\ hreq' = [query_text |-> q, user_id |-> get_user_id, force_type |-> ft,
                top_k |-> k, use_reranking |-> rr]
    /\ hpc' = "calling"
    /\ op' = "stream"
    /\ args' = hreq'
    /\ pc' = "retrieve"
    /\ UNCHANGED <<last, ledger, parked, hresult, yielded, full_response, events, collection,
                   context_results, context_docs, context, determined_action,
                   selected_action, result, error, calls>>

\* stream_rag_query raised: the 500 JSON answer, no event stream
StreamCallFailed ==
    /\ hpc = "calling"
    /\ pc = "failed"
    /\ hpc' = "refused"
    /\ UNCHANGED <<last, ledger, parked, hreq, hresult, yielded, full_response, events, collection, pc, op,
                   args, context_results, context_docs, context, determined_action,
                   selected_action, result, error, calls>>

\* generate(): yield _sse_event("meta", meta_payload); full_response = ""
EmitMeta ==
    /\ hpc = "calling"
    /\ pc = "done"
    /\ hresult' = result
    /\ events' = Append(events,
          _sse_event("meta", [query |-> result.query, type |-> result.type,
                              context_chunks |-> result.context_chunks,
                              sources |-> result.sources]))
    /\ full_response' = ""
    /\ hpc' = "tokens"
    /\ UNCHANGED <<last, ledger, parked, hreq, yielded, collection, pc, op, args, context_results,
                   context_docs, context, determined_action, selected_action,
                   result, error, calls>>

\* the done event carrying the type the request asked for
done_event_requested_type(response) ==
    _sse_event("done", [response |-> response,
                        type |-> IF Truthy(hreq.force_type) THEN hreq.force_type.val
                                 ELSE "ask"])

\* yield _sse_event("done", {"response": full_response, "type": result.get("type")})
done_event(response) ==
    _sse_event("done", [response |-> response, type |-> hresult.type])

\* one turn of `for token in result.get("stream")`
NextToken ==
    /\ hpc = "tokens"
    /\ Len(yielded) < MaxTokens
    /\ \E token \in Tokens :
         /\ yielded' = Append(yielded, token)
         /\ full_response' = full_response \o token
         /\ events' = Append(events, _sse_event("token", [token |-> token]))
    /\ UNCHANGED <<last, ledger, parked, hpc, hreq, hresult, collection, pc, op, args, context_results,
                   context_docs, context, determined_action, selected_action,
                   result, error, calls>>

\* the token sequence raises while it is iterated: the outer except
StreamRaises ==
    /\ hpc = "tokens"
    /\ events' = Append(events, _sse_event("error", [error |-> "stream"]))
    /\ hpc' = "closed"
    /\ UNCHANGED <<last, ledger, parked, hreq, hresult, yielded, full_response, collection, pc, op, args,
                   context_results, context_docs, context, determined_action,
                   selected_action, result, error, calls>>

\* the fallback decided by the number of fragments instead of the text
StreamEndsCountingFragments ==
    /\ hpc = "tokens"
    /\ IF yielded = <<>>
       THEN /\ hpc' = "fallback"
            /\ op' = "run"
            /\ args' = hreq
            /\ pc' = "retrieve"
            /\ context_results' = <<>>
            /\ context_docs' = <<>>
            /\ context' = ""
            /\ determined_action' = ""
            /\ selected_action' = NoTemplate
            /\ result' = NoResult
            /\ error' = "none"
            /\ calls' = <<>>
       ELSE /\ hpc' = "finishing"
            /\ UNCHANGED <<op, args, pc, context_results, context_docs, context,
                           determined_action, selected_action, result, error, calls>>
    /\ UNCHANGED <<last, ledger, parked, hreq, hresult, yielded, full_response, events, collection>>

\* the token sequence ends: `if not full_response:` calls run_rag_query with
\* the request's arguments, a fresh execution of the orchestrator
StreamEnds ==
    /\ hpc = "tokens"
    /\ IF full_response = ""
       THEN /\ hpc' = "fallback"
            /\ op' = "run"
            /\ args' = hreq
            /\ pc' = "retrieve"
            /\ context_results' = <<>>
            /\ context_docs' = <<>>
            /\ context' = ""
            /\ determined_action' = ""
            /\ selected_action' = NoTemplate
            /\ result' = NoResult
            /\ error' = "none"
            /\ calls' = <<>>
       ELSE /\ hpc' = "finishing"
            /\ UNCHANGED <<op, args, pc, context_results, context_docs, context,
                           determined_action, selected_action, result, error, calls>>
    /\ UNCHANGED <<last, ledger, parked, hreq, hresult, yielded, full_response, events, collection>>

\* full_response = fallback.get("response", "") or ""
FallbackReturns ==
    /\ hpc = "fallback"
    /\ pc = "done"
    /\ full_response' = result.response
    /\ hpc' = "finishing"
    /\ UNCHANGED <<last, ledger, parked, hreq, hresult, yielded, events, collection, pc, op, args,
                   context_results, context_docs, context, determined_action,
                   selected_action, result, error, calls>>

\* except Exception as fallback_error: yield _sse_event("error", ...); the
\* generator then goes on to the done event
FallbackRaises ==
    /\ hpc = "fallback"
    /\ pc = "failed"
    /\ events' = Append(events, _sse_event("error", [error |-> error]))
    /\ hpc' = "finishing"
    /\ UNCHANGED <<last, ledger, parked, hreq, hresult, yielded, full_response, collection, pc, op, args,
                   context_results, context_docs, context, determined_action,
                   selected_action, result, error, calls>>

\* yield _sse_event("done", ...): the generator returns
EmitDone ==
    /\ hpc = "finishing"
    /\ events' = Append(events, done_event(full_response))
    /\ hpc' = "closed"
    /\ UNCHANGED <<last, ledger, parked, hreq, hresult, yielded, full_response, collection, pc, op, args,
                   context_results, context_docs, context, determined_action,
                   selected_action, result, error, calls>>

NextStream ==
    \/ \E q \in Queries, ft \in StreamForceTypes, k \in TopKs, rr \in BOOLEAN :
          rag_query_stream(q, ft, k, rr)
    \/ Retrieve
    \/ FallbackRetrieve
    \/ BuildContext
    \/ Rerank
    \/ ResolveForced
    \/ Classify
    \/ Select
    \/ Generate
    \/ OpenStream
    \/ StreamCallFailed
    \/ EmitMeta
    \/ NextToken
    \/ StreamRaises
    \/ StreamEnds
    \/ FallbackReturns
    \/ FallbackRaises
    \/ EmitDone

\* the store the streaming and the concurrent requests run against: two
\* chunks of the handler's user, enough for retrieval to come back empty,
\* single or re-rankable, and the chunk of the other user
StreamStored == SelectSeq(StoredChunks, LAMBDA c : c.document \in {"c1", "c2", "n1"})

InitStream ==
    /\ collection = StreamStored
    /\ pc = "idle"
    /\ op = "none"
    /\ args = NoArgs
    /\ context_results = <<>>
    /\ context_docs = <<>>
    /\ context = ""
    /\ determined_action = ""
    /\ selected_action = NoTemplate
    /\ result = NoResult
    /\ error = "none"
    /\ calls = <<>>
    /\ hpc = "none"
    /\ hreq = NoArgs
    /\ hresult = NoResult
    /\ yielded = <<>>
    /\ full_response = ""
    /\ events = <<>>
    /\ parked = NoFrame
    /\ last = NoCall
    /\ ledger = NoIngests

SpecStream == InitStream /\ [][NextStream]_vars

\* ------------------------------------------------- requests in flight
\* Two calls of run_rag_query / stream_rag_query in flight at once, each in
\* a thread of the server. The variables of the orchestrator are the frame of
\* the thread that is running; parked is the frame of the other thread. A
\* thread can be preempted between any two steps.

\* the arguments the two requests choose from
ConcRequests ==
    {[o |-> "run", u |-> "mcp_user", ft |-> None, rr |-> TRUE],
     [o |-> "stream", u |-> "harry", ft |-> Some("excel"), rr |-> TRUE],
     [o |-> "run", u |-> "harry", ft |-> Some("risk"), rr |-> FALSE]}

\* the frame of the running thread
RunningFrame ==
    [pc |-> pc, op |-> op, args |-> args, context_results |-> context_results,
     context_docs |-> context_docs, context |-> context,
     determined_action |-> determined_action, selected_action |-> selected_action,
     result |-> result, error |-> error, calls |-> calls]

\* a preemption under which `context` is one variable of the process
\* instead of a local of each call
SwitchSharingContext ==
    /\ parked' = RunningFrame
    /\ pc' = parked.pc
    /\ op' = parked.op
    /\ args' = parked.args
    /\ context_results' = parked.context_results
    /\ context_docs' = parked.context_docs
    /\ determined_action' = parked.determined_action
    /\ selected_action' = parked.selected_action
    /\ result' = parked.result
    /\ error' = parked.error
    /\ calls' = parked.calls
    /\ UNCHANGED <<last, ledger, context, collection, hpc, hreq, hresult, yielded, full_response, events>>

\* the running thread is preempted and the other thread goes on: every
\* local of the function lives in the frame of its own call
Switch ==
    /\ parked' = RunningFrame
    /\ pc' = parked.pc
    /\ op' = parked.op
    /\ args' = parked.args
    /\ context_results' = parked.context_results
    /\ context_docs' = parked.context_docs
    /\ context' = parked.context
    /\ determined_action' = parked.determined_action
    /\ selected_action' = parked.selected_action
    /\ result' = parked.result
    /\ error' = parked.error
    /\ calls' = parked.calls
    /\ UNCHANGED <<last, ledger, collection, hpc, hreq, hresult, yielded, full_response, events>>

NextConc ==
    \/ \E c \in ConcRequests, q \in Queries : Request(c.o, q, c.u, c.ft, MaxTopK, c.rr)
    \/ Switch
    \/ Retrieve
    \/ FallbackRetrieve
    \/ BuildContext
    \/ Rerank
    \/ ResolveForced
    \/ Classify
    \/ Select
    \/ Generate
    \/ OpenStream

SpecConc == InitStream /\ [][NextConc]_vars

\* ------------------------------------------------- store operations
\* the variables of the orchestrator and of the streaming handler
request == <<pc, op, args, context_results, context_docs, context, determined_action,
             selected_action, result, error, calls, hpc, hreq, hresult, yielded,
             full_response, events, parked>>

\* ingest_document_path / add_url_source: add_to_vector_collection(splits, ...)
Ingest ==
    /\ \E u \in StoreUsers, f \in FileNames, all_splits \in Splits :
         /\ <<u, f>> \in IngestPairs
         /\ Cardinality({p \in DOMAIN ledger : ledger[p] # <<>>} \cup {<<u, f>>}) <= MaxFiles
         /\ collection' = add_to_vector_collection(collection, all_splits, f, u)
         /\ ledger' = [ledger EXCEPT ![<<u, f>>] = all_splits]
         /\ last' = [fn |-> "add_to_vector_collection", user_id |-> u, file_name |-> f,
                     ret |-> [status |-> "success", chunks_added |-> Len(all_splits)]]
    /\ UNCHANGED request

\* query_collection(prompt, user_id, n_results=k)
Query ==
    /\ \E q \in Queries, u \in StoreUsers, k \in SearchTopKs :
         \E out \in QueryCollectionOutcomes(collection, u, k) :
            last' = [fn |-> "query_collection", prompt |-> q, user_id |-> u,
                     n_results |-> k, raised |-> ~out.ok, ret |-> out.passages]
    /\ UNCHANGED <<request, collection, ledger>>

\* search (POST /api/query/search)
search ==
    /\ \E q \in Queries, k \in SearchTopKs :
         IF ~CallBinds(query_collection_params, search_keywords)
         THEN last' = [fn |-> "search", query |-> q, user_id |-> get_user_id, top_k |-> k,
                       status |-> 500, body |-> [error |-> "TypeError"]]
         ELSE \E out \in QueryCollectionOutcomes(collection, get_user_id, k) :
                 last' = [fn |-> "search", query |-> q, user_id |-> get_user_id, top_k |-> k,
                          status |-> IF out.ok THEN 200 ELSE 500,
                          body |-> IF out.ok
                                   THEN [results |-> out.passages, query |-> q,
                                         count |-> Len(out.passages)]
                                   ELSE [error |-> "query_collection"]]
    /\ UNCHANGED <<request, collection, ledger>>

\* search_documents (MCP tool)
search_documents ==
    /\ \E q \in Queries, u \in StoreUsers, k \in SearchTopKs :
         IF ~CallBinds(query_collection_params, search_documents_keywords)
         THEN last' = [fn |-> "search_documents", query |-> q, user_id |-> u, top_k |-> k,
                       raised |-> TRUE, body |-> [error |-> "TypeError"]]
         ELSE \E out \in QueryCollectionOutcomes(collection, u, k) :
                 last' = [fn |-> "search_documents", query |-> q, user_id |-> u, top_k |-> k,
                          raised |-> ~out.ok,
                          body |-> IF out.ok
                                   THEN [results |-> out.passages, query |-> q,
                                         count |-> Len(out.passages)]
                                   ELSE [error |-> "query_collection"]]
    /\ UNCHANGED <<request, collection, ledger>>

\* list_documents: list_vector_sources(user_id)
ListSources ==
    /\ \E u \in StoreUsers :
         last' = [fn |-> "list_vector_sources", user_id |-> u,
                  ret |-> list_vector_sources(collection, u)]
    /\ UNCHANGED <<request, collection, ledger>>

InitStore ==
    /\ collection = <<>>
    /\ pc = "idle"
    /\ op = "none"
    /\ args = NoArgs
    /\ context_results = <<>>
    /\ context_docs = <<>>
    /\ context = ""
    /\ determined_action = ""
    /\ selected_action = NoTemplate
    /\ result = NoResult
    /\ error = "none"
    /\ calls = <<>>
    /\ hpc = "none"
    /\ hreq = NoArgs
    /\ hresult = NoResult
    /\ yielded = <<>>
    /\ full_response = ""
    /\ events = <<>>
    /\ parked = NoFrame
    /\ last = NoCall
    /\ ledger = NoIngests

NextStore ==
    \/ Ingest
    \/ Query
    \/ search
    \/ search_documents
    \/ ListSources

SpecStore == InitStore /\ [][NextStore]_vars

\* ------------------------------------------------------- HTTP handler
\* rag_query (POST /api/query/rag): what the handler answers once its call
\* of run_rag_query has returned or raised.
rag_query_response ==
    IF pc = "failed"
    THEN [status |-> 500,
          body   |-> [error |-> "LLM processing failed: " \o error,
                      query |-> args.query_text,
                      type  |-> IF Truthy(args.force_type) THEN args.force_type.val
                                ELSE "ask"]]
    ELSE [status |-> 200, body |-> result]

\* ------------------------------------------------------------- claims
CallsOf(f) == SelectSeq(calls, LAMBDA c : c.fn = f)
RetrievalCalls == CallsOf("query_collection")
RerankCalls == CallsOf("re_rank_cross_encoders")
ClassifierCalls == CallsOf("determine_action")
GenerationCalls == SelectSeq(calls, LAMBDA c : c.fn \in {"call_llm", "call_llm_stream"})

CanonicalIntents ==
    {"ask", "summary", "testcase_excel", "test_case", "validate", "test_strategy", "risk"}
RegistryTypes == {prompt_templates[i].type : i \in 1..Len(prompt_templates)}

\* C1: the type of every result of run_rag_query and of stream_rag_query is
\* one of the seven canonical intents; it is never the forced string or the
\* classifier's string when that string is no registry type; and no request
\* fails in template selection.
C1_TypeIsCanonical ==
    /\ error # "select_action"
    /\ pc = "done" =>
         /\ result.type \in CanonicalIntents
         /\ determined_action \notin RegistryTypes => result.type # determined_action
         /\ \A i \in 1..Len(ClassifierCalls) :
              Str(ClassifierCalls[i].reply.content) \notin RegistryTypes
                 => result.type # Str(ClassifierCalls[i].reply.content)

\* a junk forced type ("qa", as check_server.py sends) ends in a result of type ask
C1_Witness ==
    /\ pc = "done"
    /\ args.force_type = Some("qa")
    /\ determined_action = "qa"
    /\ result.type = "ask"

\* C2: an empty first retrieval is followed by exactly one more retrieval, for
\* "about" with the same user_id and top_k; a non-empty one by none; a run
\* makes one or two retrieval calls, never more.
C2_FallbackRetrieval ==
    LET qc == RetrievalCalls
    IN  /\ Len(qc) <= 2
        /\ pc \notin {"idle", "retrieve"} =>
             /\ Len(qc) >= 1
             /\ qc[1].prompt = args.query_text
             /\ qc[1].user_id = args.user_id
             /\ qc[1].n_results = args.top_k
        /\ pc \notin {"idle", "retrieve", "fallback"} =>
             IF ~qc[1].raised /\ qc[1].ret = <<>>
             THEN /\ Len(qc) = 2
                  /\ qc[2].prompt = "about"
                  /\ qc[2].user_id = args.user_id
                  /\ qc[2].n_results = args.top_k
             ELSE Len(qc) = 1

\* a finished run whose first retrieval was empty and whose second was made
C2_Witness ==
    /\ pc = "done"
    /\ Len(RetrievalCalls) = 2
    /\ RetrievalCalls[1].ret = <<>>
    /\ RetrievalCalls[2].prompt = "about"

\* the passages of the retrieval a run uses: the first if non-empty, else the fallback
UsedRetrieval ==
    IF RetrievalCalls[1].ret # <<>> THEN RetrievalCalls[1].ret ELSE RetrievalCalls[2].ret

\* C3: sources of run_rag_query is the whole passage list of the retrieval in
\* use, in retrieval order, re-ranked or not, and context_chunks is its
\* length; a single passage is the whole context.
C3_SourcesAreFullRetrieval ==
    (pc = "done" /\ op = "run") =>
        /\ result.sources = UsedRetrieval
        /\ result.context_chunks = Len(UsedRetrieval)
        /\ Len(UsedRetrieval) = 1 =>
             \A i \in 1..Len(GenerationCalls) :
                GenerationCalls[i].context = UsedRetrieval[1].content

\* first retrieval [], fallback retrieval [q1]
C3_Witness ==
    /\ pc = "done"
    /\ op = "run"
    /\ Len(RetrievalCalls) = 2
    /\ RetrievalCalls[1].ret = <<>>
    /\ Len(RetrievalCalls[2].ret) = 1
    /\ result.sources = RetrievalCalls[2].ret
    /\ result.context_chunks = 1

\* the contents of the passages in use
SourceContents == {context_results[i].content : i \in 1..Len(context_results)}

\* the contexts handed to the classifier and to generation so far
ContextsSent ==
    {calls[i].context : i \in {j \in 1..Len(calls) :
        calls[j].fn \in {"determine_action", "call_llm", "call_llm_stream"}}}

\* C4: every context handed to the classifier or to generation is the
\* blank-line join of at most 3 contents of passages in sources, whatever the
\* number of passages and whatever re-ranking did, and is empty when no
\* passage was retrieved.
C4_ContextAtMostThree ==
    \A c \in ContextsSent :
        /\ context_results = <<>> => c = ""
        /\ \E m \in 0..3 : \E picked \in [1..m -> SourceContents] : Join(picked) = c

\* more than 3 passages, re-ranked into an order other than the retrieved one
C4_Witness ==
    /\ pc = "done"
    /\ Len(context_results) > 3
    /\ Len(RerankCalls) = 1
    /\ RerankCalls[1].answer = "ranked"
    /\ context # build_context(ContextDocs(context_results))
    /\ context \in ContextsSent

\* the run is past its re-rank gate
PastRerankGate ==
    \/ pc \in {"resolve", "select", "generate", "done"}
    \/ pc = "failed" /\ error # "query_collection"

\* C5: re-ranking is invoked in a run exactly when use_reranking is true and
\* at least 2 passages were retrieved, and at most once.
C5_RerankGate ==
    /\ Len(RerankCalls) <= 1
    /\ PastRerankGate =>
         (Len(RerankCalls) = 1 <=> (args.use_reranking /\ Len(context_results) >= 2))

\* two passages with use_reranking: the one invocation
C5_Witness ==
    /\ pc = "done"
    /\ args.use_reranking
    /\ Len(context_results) = 2
    /\ Len(RerankCalls) = 1

\* C6: when the cross-encoder cannot be loaded or raises, re_rank_cross_encoders
\* returns its input unchanged, nothing escapes run_rag_query because of it, and
\* the context is the join of the first 3 passages in retrieval order.
C6_RerankFailureIsIdentity ==
    /\ error # "re_rank_cross_encoders"
    /\ \A i \in 1..Len(RerankCalls) :
         RerankCalls[i].answer \in {"unavailable", "raised"} =>
            /\ ~RerankCalls[i].raised
            /\ RerankCalls[i].ret = RerankCalls[i].documents
            /\ RerankCalls[i].documents = ContextDocs(context_results)
            /\ context = Join(Take(ContextDocs(context_results), 3))
            /\ \A c \in ContextsSent : c = context

\* scoring raised over more than 3 passages and the run finished
C6_Witness ==
    /\ pc = "done"
    /\ op = "run"
    /\ Len(context_results) > 3
    /\ Len(RerankCalls) = 1
    /\ RerankCalls[1].answer = "raised"

\* the templates whose type is the intent, and those with the intent as an alias
ExactMatches(a) == {i \in 1..Len(prompt_templates) : prompt_templates[i].type = a}
AliasMatches(a) ==
    {i \in 1..Len(prompt_templates) :
        \E k \in 1..Len(prompt_templates[i].aliases) : prompt_templates[i].aliases[k] = a}

\* template selection has completed
Selected ==
    \/ pc \in {"generate", "done"}
    \/ pc = "failed" /\ error \in {"call_llm", "call_llm_stream"}

\* C7: the selected template is the one whose type is the resolved intent,
\* else the one holding it as an alias, else ask; its type is the reported
\* type and its prompts are the ones sent to generation.
C7_ThreeTierSelection ==
    Selected =>
        /\ \E i \in 1..Len(prompt_templates) : selected_action = prompt_templates[i]
        /\ ExactMatches(determined_action) # {}
              => selected_action.type = determined_action
        /\ (ExactMatches(determined_action) = {} /\ AliasMatches(determined_action) # {})
              => \E i \in AliasMatches(determined_action) :
                    selected_action = prompt_templates[i]
        /\ (ExactMatches(determined_action) = {} /\ AliasMatches(determined_action) = {})
              => selected_action.type = "ask"
        /\ pc = "done" => result.type = selected_action.type
        /\ \A i \in 1..Len(GenerationCalls) :
              /\ GenerationCalls[i].sysprompt = selected_action.sys_prompt
              /\ GenerationCalls[i].spl_prompt = selected_action.spl_prompt

\* an alias resolved by the second tier
C7_Witness ==
    /\ pc = "done"
    /\ determined_action = "excel"
    /\ selected_action.type = "testcase_excel"
    /\ result.type = "testcase_excel"
    /\ Len(GenerationCalls) = 1
    /\ GenerationCalls[1].sysprompt = "qa_testcase_prompt"

\* intent resolution has completed
Resolved ==
    \/ pc \in {"select", "generate", "done"}
    \/ pc = "failed" /\ error \in {"select_action", "call_llm", "call_llm_stream"}

\* C8 as stated: whatever string is supplied as forced_type, the empty one
\* included, the classifier is not invoked and the string is the resolved intent.
C8_AnySuppliedForcedTypeWins ==
    args.force_type.some =>
        /\ Len(ClassifierCalls) = 0
        /\ Resolved => determined_action = args.force_type.val

\* C8, amended: a supplied non-empty forced_type is the resolved intent,
\* unmodified, and the classifier is not invoked; an absent or empty
\* forced_type is resolved by exactly one classifier call.
C8_NonEmptyForcedTypeWins ==
    /\ (args.force_type.some /\ args.force_type.val # "") =>
          /\ Len(ClassifierCalls) = 0
          /\ Resolved => determined_action = args.force_type.val
    /\ (Resolved /\ (~args.force_type.some \/ args.force_type.val = "")) =>
          /\ Len(ClassifierCalls) = 1
          /\ determined_action = ClassifierCalls[1].ret

\* a junk forced type carried verbatim to template selection, no classifier call
C8_Witness ==
    /\ pc = "done"
    /\ args.force_type = Some("qa")
    /\ determined_action = "qa"
    /\ Len(ClassifierCalls) = 0

\* what determine_action is to return for each answer of the model
ExpectedActions == {
    <<<<"r","i","s","k">>, "risk">>,
    <<<<" ","R","i","s","k","\n">>, "risk">>,
    <<<<"b","a","n","a","n","a">>, "ask">>,
    <<<<"g","e","n","e","r","a","t","e"," ","t","e","s","t">>, "ask">>,
    <<<<"t","e","s","t","_","c","a","s","e">>, "test_case">>,
    <<<<"T","E","S","T","C","A","S","E","_","E","X","C","E","L">>, "testcase_excel">>,
    <<<<"s","u","m","m","a","r","y">>, "summary">>,
    <<<<"\t","V","a","l","i","d","a","t","e"," ">>, "validate">>,
    <<<<"t","e","s","t","_","s","t","r","a","t","e","g","y"," ">>, "test_strategy">>,
    <<<<"a","s","k">>, "ask">>,
    <<<<>>, "ask">>}

\* C9: determine_action never raises and always returns one of the seven
\* intents: the answer trimmed and lowercased when that is one of them, ask for
\* any other answer and when the model call fails; a run resolved by an
\* unknown answer has type ask.
C9_ClassifierIsTotal ==
    \A i \in 1..Len(ClassifierCalls) :
        LET c == ClassifierCalls[i]
        IN  /\ ~c.raised
            /\ c.ret \in CanonicalIntents
            /\ ~c.reply.ok => c.ret = "ask"
            /\ c.reply.ok =>
                 \A e \in ExpectedActions : e[1] = c.reply.content => c.ret = e[2]
            /\ (pc = "done" /\ c.ret = "ask") => result.type = "ask"

\* Scenario D: the model answers "banana", no forced type
C9_Witness ==
    /\ pc = "done"
    /\ args.force_type = None
    /\ Len(ClassifierCalls) = 1
    /\ ClassifierCalls[1].reply.ok
    /\ ClassifierCalls[1].reply.content = <<"b","a","n","a","n","a">>
    /\ ClassifierCalls[1].ret = "ask"
    /\ result.type = "ask"

\* C10: with no forced type, a classification answer of "generate test" ends
\* in a result of type testcase_excel, generated with that template's prompts.
C10_AliasAnswerResolves ==
    (/\ pc = "done"
     /\ op = "run"
     /\ args.force_type = None
     /\ Len(ClassifierCalls) = 1
     /\ ClassifierCalls[1].reply.ok
     /\ ClassifierCalls[1].reply.content = <<"g","e","n","e","r","a","t","e"," ","t","e","s","t">>)
    => /\ result.type = "testcase_excel"
       /\ \A i \in 1..Len(GenerationCalls) :
             /\ GenerationCalls[i].sysprompt = "qa_testcase_prompt"
             /\ GenerationCalls[i].spl_prompt = "qa_testcase_prompt"


\* the template of a registry type
TemplateOf(t) ==
    prompt_templates[CHOOSE i \in 1..Len(prompt_templates) : prompt_templates[i].type = t]

\* C11: with a registry type T forced, use_reranking false and n >= 3 retrieved
\* passages, generation gets the join of the first 3 contents in retrieval
\* order, T's two prompts and the original query; the result has type T and
\* all n passages as sources.
C11_ForcedTypeNoRerank ==
    (/\ op = "run"
     /\ pc = "done" \/ (pc = "failed" /\ error = "call_llm")
     /\ args.force_type.some
     /\ args.force_type.val \in RegistryTypes
     /\ ~args.use_reranking
     /\ Len(context_results) >= 3)
    => /\ Len(GenerationCalls) = 1
       /\ GenerationCalls[1].fn = "call_llm"
       /\ GenerationCalls[1].context =
             context_results[1].content \o "\n\n" \o context_results[2].content
                \o "\n\n" \o context_results[3].content
       /\ GenerationCalls[1].sysprompt = TemplateOf(args.force_type.val).sys_prompt
       /\ GenerationCalls[1].spl_prompt = TemplateOf(args.force_type.val).spl_prompt
       /\ GenerationCalls[1].prompt = args.query_text
       /\ pc = "done" =>
            /\ result.type = args.force_type.val
            /\ result.sources = UsedRetrieval
            /\ Len(result.sources) = Len(context_results)

\* Scenario A: four passages, forced_type "risk", no re-ranking
C11_Witness ==
    /\ pc = "done"
    /\ op = "run"
    /\ args.force_type = Some("risk")
    /\ ~args.use_reranking
    /\ Len(context_results) = 4
    /\ Len(result.sources) = 4
    /\ result.type = "risk"
    /\ GenerationCalls[1].sysprompt = "qa_risk_prompt"
    /\ GenerationCalls[1].context = "c1\n\nc2\n\nc3"


\* the place of a collaborator call in the control flow of run_rag_query
Stage(c) ==
    IF c.fn = "query_collection" THEN (IF c.prompt = "about" THEN 2 ELSE 1)
    ELSE IF c.fn = "re_rank_cross_encoders" THEN 3
    ELSE IF c.fn = "determine_action" THEN 4
    ELSE 5
StagesCalled == {Stage(calls[i]) : i \in 1..Len(calls)}

\* C15: run_rag_query calls its collaborators in the order retrieve(query),
\* retrieve("about") only after an empty first retrieval, re-rank only when
\* gated in, classify only without a forced type, generate; the classifier
\* sees the context as re-ranking left it; generation comes after template
\* selection and nothing is called after it.
C15_CallOrder ==
    op = "run" =>
        /\ \A i, j \in 1..Len(calls) : i < j => Stage(calls[i]) < Stage(calls[j])
        /\ calls # <<>> => Stage(calls[1]) = 1 /\ calls[1].prompt = args.query_text
        /\ \A i \in 1..Len(calls) :
             /\ Stage(calls[i]) = 2 =>
                  i = 2 /\ ~calls[1].raised /\ calls[1].ret = <<>>
             /\ Stage(calls[i]) = 3 =>
                  args.use_reranking /\ Len(context_results) >= 2
             /\ Stage(calls[i]) = 4 =>
                  /\ ~(args.force_type.some /\ args.force_type.val # "")
                  /\ calls[i].context =
                        IF RerankCalls # <<>>
                        THEN Join(Take(RerankCalls[1].ret, 3))
                        ELSE Join(Take(ContextDocs(context_results), 3))
             /\ Stage(calls[i]) = 5 =>
                  /\ i = Len(calls)
                  /\ pc \in {"done", "failed"}
                  /\ \E k \in 1..Len(prompt_templates) : selected_action = prompt_templates[k]
        /\ pc = "done" =>
             /\ {1, 5} \subseteq StagesCalled
             /\ 2 \in StagesCalled <=> calls[1].ret = <<>>
             /\ 3 \in StagesCalled <=> (args.use_reranking /\ Len(context_results) >= 2)
             /\ 4 \in StagesCalled <=> ~(args.force_type.some /\ args.force_type.val # "")

\* a run that made all five calls, the classifier seeing a re-ranked context
C15_Witness ==
    /\ pc = "done"
    /\ op = "run"
    /\ Len(calls) = 5
    /\ RerankCalls[1].answer = "ranked"
    /\ ClassifierCalls[1].context # build_context(ContextDocs(context_results))

\* C16: one run invokes the generation client at most once; when that call
\* fails the run fails at once, returning nothing and calling nothing more.
C16_GenerationNotRetried ==
    op = "run" =>
        /\ Len(GenerationCalls) <= 1
        /\ \A i \in 1..Len(calls) :
             (calls[i].fn = "call_llm" /\ calls[i].raised) =>
                /\ i = Len(calls)
                /\ pc = "failed"
                /\ error = "call_llm"
                /\ result = NoResult

\* a run whose generation call raised
C16_Witness ==
    /\ op = "run"
    /\ pc = "failed"
    /\ error = "call_llm"
    /\ Len(GenerationCalls) = 1
    /\ GenerationCalls[1].raised

\* C17: when generation fails under POST /api/query/rag, the failure payload
\* carries the type of the template run_rag_query selected for that call.
C17_FailurePayloadHasSelectedType ==
    (op = "run" /\ args.user_id = "harry" /\ pc = "failed" /\ error = "call_llm") =>
        /\ rag_query_response.status = 500
        /\ rag_query_response.body.type = selected_action.type

\* C18: a retrieval call of run_rag_query that fails is the last call of the
\* run: no retry, no "about" fallback after a failed first retrieval, no
\* re-rank, classification or generation; run_rag_query returns nothing and
\* the handler answers with a failure payload holding the request's query.
C18_RetrievalFailurePropagates ==
    op = "run" =>
        /\ \A i \in 1..Len(calls) :
             (calls[i].fn = "query_collection" /\ calls[i].raised) =>
                /\ i = Len(calls)
                /\ \A j \in 1..Len(calls) : calls[j].fn = "query_collection"
                /\ pc = "failed"
                /\ error = "query_collection"
                /\ result = NoResult
        /\ (args.user_id = "harry" /\ pc = "failed" /\ error = "query_collection") =>
             /\ calls[Len(calls)].raised
             /\ rag_query_response.status = 500
             /\ rag_query_response.body.query = args.query_text

\* the first retrieval raised: one call, no fallback, a failure payload
C18_Witness ==
    /\ op = "run"
    /\ args.user_id = "harry"
    /\ pc = "failed"
    /\ error = "query_collection"
    /\ Len(calls) = 1
    /\ calls[1].raised
    /\ rag_query_response.body.query = "foo"

\* the number of places of a list holding x
Count(list, x) == Cardinality({i \in 1..Len(list) : list[i] = x})

\* C20: on a successful scoring call re_rank_cross_encoders returns
\* min(3, len(documents)) of its input documents, none more often than the
\* input holds it, so cutting its result to 3 again changes nothing; for an
\* empty input it returns an empty list.
C20_RerankIsCappedReordering ==
    /\ \A a \in RankAnswers(0) : re_rank_cross_encoders(<<>>, a) = Ret(<<>>)
    /\ \A i \in 1..Len(RerankCalls) :
         RerankCalls[i].answer = "ranked" =>
            LET docs == RerankCalls[i].documents
                out  == RerankCalls[i].ret
            IN  /\ Len(out) = IF Len(docs) < 3 THEN Len(docs) ELSE 3
                /\ \A k \in 1..Len(out) : Count(out, out[k]) <= Count(docs, out[k])
                /\ Len(docs) <= 3 => \A k \in 1..Len(docs) : Count(out, docs[k]) = Count(docs, docs[k])
                /\ Take(out, 3) = out
                /\ context = Join(out)

\* four documents scored: three come back, in another order than they went in
C20_Witness ==
    /\ pc = "done"
    /\ Len(RerankCalls) = 1
    /\ RerankCalls[1].answer = "ranked"
    /\ Len(RerankCalls[1].documents) = 4
    /\ Len(RerankCalls[1].ret) = 3
    /\ RerankCalls[1].ret # Take(RerankCalls[1].documents, 3)


\* What a call with the arguments in args leads to before generation, as a
\* function of the arguments and of what retrieval, the cross-encoder and the
\* classifier answered; nothing in it depends on which of the two functions
\* was called.
ExpectedRetrievals ==
    <<[prompt |-> args.query_text, user_id |-> args.user_id, n_results |-> args.top_k]>>
    \o (IF RetrievalCalls[1].ret = <<>>
        THEN <<[prompt |-> "about", user_id |-> args.user_id, n_results |-> args.top_k]>>
        ELSE <<>>)
ExpectedContext ==
    LET docs == [i \in 1..Len(UsedRetrieval) |-> UsedRetrieval[i].content]
    IN  IF args.use_reranking /\ Len(docs) > 1
        THEN Join(Take(RerankCalls[1].ret, 3))
        ELSE Join(Take(docs, 3))
ExpectedTemplate ==
    select_action(prompt_templates,
                  IF Truthy(args.force_type) THEN args.force_type.val
                  ELSE ClassifierCalls[1].ret).value
RerankAnswered ==
    \A i \in 1..Len(RerankCalls) :
        /\ RerankCalls[i].documents =
              [k \in 1..Len(UsedRetrieval) |-> UsedRetrieval[k].content]
        /\ \E a \in RankAnswers(Len(RerankCalls[i].documents)) :
              /\ a.kind = RerankCalls[i].answer
              /\ RerankCalls[i].ret =
                    re_rank_cross_encoders(RerankCalls[i].documents, a).value

\* C14: with the same arguments and the same answers of retrieval, re-rank
\* and classifier, stream_rag_query and run_rag_query issue the same
\* retrieval calls, return the same query, type, context_chunks and sources
\* and hand the same (context, sysprompt, prompt, spl_prompt) to generation;
\* one calls call_llm and returns `response`, the other calls
\* call_llm_stream and returns `stream`.
C14_StreamAgreesWithRun ==
    pc = "done" =>
        /\ [i \in 1..Len(RetrievalCalls) |->
              [prompt |-> RetrievalCalls[i].prompt, user_id |-> RetrievalCalls[i].user_id,
               n_results |-> RetrievalCalls[i].n_results]] = ExpectedRetrievals
        /\ RerankAnswered
        /\ Len(GenerationCalls) = 1
        /\ GenerationCalls[1].context = ExpectedContext
        /\ GenerationCalls[1].sysprompt = ExpectedTemplate.sys_prompt
        /\ GenerationCalls[1].prompt = args.query_text
        /\ GenerationCalls[1].spl_prompt = ExpectedTemplate.spl_prompt
        /\ result.query = args.query_text
        /\ result.type = ExpectedTemplate.type
        /\ result.context_chunks = Len(UsedRetrieval)
        /\ result.sources = UsedRetrieval
        /\ op = "run" =>
             /\ GenerationCalls[1].fn = "call_llm"
             /\ DOMAIN result = {"query", "type", "context_chunks", "sources", "response"}
        /\ op = "stream" =>
             /\ GenerationCalls[1].fn = "call_llm_stream"
             /\ DOMAIN result = {"query", "type", "context_chunks", "sources", "stream"}

\* a streaming call that went through fallback retrieval, re-ranking and
\* classification and returned more passages than the context holds
C14_Witness ==
    /\ pc = "done"
    /\ op = "stream"
    /\ Len(RetrievalCalls) = 2
    /\ Len(RerankCalls) = 1
    /\ RerankCalls[1].answer = "ranked"
    /\ Len(ClassifierCalls) = 1
    /\ Len(result.sources) > 3


\* the events of one kind, in the order they were sent
EventsOf(kind) == SelectSeq(events, LAMBDA e : e.event = kind)

\* the strings of a list put together in order
RECURSIVE Concat(_)
Concat(list) == IF list = <<>> THEN "" ELSE Head(list) \o Concat(Tail(list))

\* C12: when the token sequence of the streaming endpoint ends without
\* having yielded a fragment, the handler calls run_rag_query with the
\* request's arguments and the done event carries that call's response,
\* which is not empty, however the call ends.
C12_EmptyStreamFallsBack ==
    (yielded = <<>> /\ hpc \in {"fallback", "finishing", "closed"} /\ EventsOf("token") = <<>>
       /\ ~(hpc = "closed" /\ EventsOf("done") = <<>>)) =>
        /\ op = "run"
        /\ args = hreq
        /\ args.user_id = get_user_id
        /\ \A i \in 1..Len(events) :
             events[i].event = "done" =>
                /\ events[i].data.response # ""
                /\ pc = "done"
                /\ events[i].data.response = result.response

\* C13: a streamed response sends exactly one meta event {query, type,
\* context_chunks, sources}, before any token event; token events come in
\* the order the token sequence yields them; a done event is the last event,
\* its response is the tokens put together in order when that is not empty,
\* and its type is the meta event's type.
C13_StreamEventOrder ==
    /\ hpc \in {"tokens", "fallback", "finishing", "closed"} <=> events # <<>>
    /\ events # <<>> =>
         /\ events[1] = _sse_event("meta",
               [query |-> hreq.query_text, type |-> hresult.type,
                context_chunks |-> Len(hresult.sources), sources |-> hresult.sources])
         /\ Len(EventsOf("meta")) = 1
         /\ [i \in 1..Len(EventsOf("token")) |-> EventsOf("token")[i].data.token] = yielded
         /\ \A i \in 1..Len(events) :
              events[i].event = "done" =>
                 /\ i = Len(events)
                 /\ hpc = "closed"
                 /\ events[i].data.type = events[1].data.type
                 /\ Concat(yielded) # "" => events[i].data.response = Concat(yielded)

\* two different tokens were delivered and the stream was closed with done,
\* the type being one the request did not spell
C13_Witness ==
    /\ hpc = "closed"
    /\ yielded = <<"b", "a">>
    /\ events[Len(events)] = _sse_event("done", [response |-> "ba", type |-> "testcase_excel"])
    /\ hreq.force_type = Some("excel")
    /\ Len(events) = 4


\* The call with frame f stands where it would stand had it run alone with
\* the collaborator answers its own call log holds: its retrievals ask for
\* and return its own user's passages, its context and template follow from
\* its own answers, and so do its generation arguments and its result.
AsIfAlone(f) ==
    LET retr == SelectSeq(f.calls, LAMBDA c : c.fn = "query_collection")
        rer  == SelectSeq(f.calls, LAMBDA c : c.fn = "re_rank_cross_encoders")
        cls  == SelectSeq(f.calls, LAMBDA c : c.fn = "determine_action")
        gen  == SelectSeq(f.calls, LAMBDA c : c.fn \in {"call_llm", "call_llm_stream"})
        used == IF retr[1].ret # <<>> THEN retr[1].ret ELSE retr[2].ret
        docs == [i \in 1..Len(used) |-> used[i].content]
        ctx  == IF f.args.use_reranking /\ Len(docs) > 1
                THEN Join(Take(rer[1].ret, 3))
                ELSE IF docs # <<>> THEN Join(Take(docs, 3)) ELSE ""
        tmpl == select_action(prompt_templates,
                              IF Truthy(f.args.force_type) THEN f.args.force_type.val
                              ELSE cls[1].ret).value
    IN  /\ \A i \in 1..Len(retr) :
             /\ retr[i].user_id = f.args.user_id
             /\ \A k \in 1..Len(retr[i].ret) :
                  retr[i].ret[k].metadata.user_id = f.args.user_id
        /\ f.pc \in {"resolve", "select", "generate", "done"} =>
             /\ f.context_results = used
             /\ f.context = ctx
        /\ f.pc \in {"generate", "done"} => f.selected_action = tmpl
        /\ f.pc = "done" =>
             /\ Len(gen) = 1
             /\ gen[1].context = ctx
             /\ gen[1].sysprompt = tmpl.sys_prompt
             /\ gen[1].prompt = f.args.query_text
             /\ gen[1].spl_prompt = tmpl.spl_prompt
             /\ f.result.query = f.args.query_text
             /\ f.result.type = tmpl.type
             /\ f.result.context_chunks = Len(used)
             /\ f.result.sources = used

\* C19: with two calls of run_rag_query / stream_rag_query in flight and
\* their steps interleaved in any way, each call's type, context_chunks,
\* sources, context and generation prompts are what they would be had it run
\* alone with the same collaborator answers, and the store both read is
\* never written.
C19_NoInterference ==
    /\ collection = StreamStored
    /\ AsIfAlone(RunningFrame)
    /\ AsIfAlone(parked)

\* a streaming call of one user returned while a call of the other user was
\* preempted between template selection and generation
C19_Witness ==
    /\ pc = "done"
    /\ op = "stream"
    /\ args.user_id = "harry"
    /\ Len(RerankCalls) = 1
    /\ parked.pc = "generate"
    /\ parked.op = "run"
    /\ parked.args.user_id = "mcp_user"
    /\ parked.context = "n1"
    /\ context # parked.context


\* C21: query_collection(prompt, user_id, n_results=k) returns at most k
\* passages on each of its paths, so sources and context_chunks of a result
\* are at most the requested top_k.
C21_RetrievalWithinTopK ==
    /\ \A i \in 1..Len(RetrievalCalls) :
         Len(RetrievalCalls[i].ret) <= RetrievalCalls[i].n_results
    /\ pc = "done" =>
         /\ Len(result.sources) <= args.top_k
         /\ result.context_chunks <= args.top_k

\* the classifier or the cross-encoder failed in this run
ClassifierFailed == \E i \in 1..Len(ClassifierCalls) : ~ClassifierCalls[i].reply.ok
RerankFailed ==
    \E i \in 1..Len(RerankCalls) : RerankCalls[i].answer \in {"unavailable", "raised"}

\* C23: run_rag_query fails only when retrieval or generation fails; a
\* failed classification counts as ask and a failed re-rank leaves the
\* passages in retrieval order, and with either or both the run still
\* returns {query, type, context_chunks, response, sources}.
C23_OnlyRetrievalAndGenerationFail ==
    op = "run" =>
        /\ pc = "failed" => error \in {"query_collection", "call_llm"}
        /\ \A i \in 1..Len(ClassifierCalls) :
             /\ ~ClassifierCalls[i].raised
             /\ ~ClassifierCalls[i].reply.ok => ClassifierCalls[i].ret = "ask"
        /\ \A i \in 1..Len(RerankCalls) :
             /\ ~RerankCalls[i].raised
             /\ RerankCalls[i].answer \in {"unavailable", "raised"} =>
                   RerankCalls[i].ret = ContextDocs(context_results)
        /\ (ClassifierFailed \/ RerankFailed) =>
             /\ pc \in {"resolve", "select", "generate", "done", "failed"}
             /\ pc = "failed" => error = "call_llm"
             /\ (Selected /\ ClassifierFailed) => selected_action.type = "ask"
             /\ (pc \in {"resolve", "select", "generate", "done"} /\ RerankFailed) =>
                   context = Join(Take(ContextDocs(context_results), 3))
             /\ pc = "done" =>
                   /\ DOMAIN result = {"query", "type", "context_chunks", "response", "sources"}
                   /\ ClassifierFailed => result.type = "ask"
                   /\ result.sources = context_results

\* both the cross-encoder and the classifier failed and the run returned
C23_Witness ==
    /\ op = "run"
    /\ pc = "done"
    /\ Len(RerankCalls) = 1
    /\ RerankCalls[1].answer = "raised"
    /\ Len(RerankCalls[1].documents) > 3
    /\ ClassifierFailed
    /\ result.type = "ask"

\* C25: without a forced type the ask template is never reached through a
\* miss: each of the seven strings determine_action returns is a registry
\* type or an alias, test_case being an alias of testcase_excel; the
\* reported type is one of the six registry types, never test_case.
C25_ClassifierOutputAlwaysMatches ==
    /\ \A k \in 1..Len(valid_actions) :
         ExactMatches(valid_actions[k]) # {} \/ AliasMatches(valid_actions[k]) # {}
    /\ (Selected /\ ~Truthy(args.force_type)) =>
         LET a == ClassifierCalls[1].ret
         IN  /\ determined_action = a
             /\ ExactMatches(a) # {} \/ AliasMatches(a) # {}
             /\ ExactMatches(a) # {} => selected_action.type = a
             /\ ExactMatches(a) = {} =>
                  \E i \in AliasMatches(a) : selected_action = prompt_templates[i]
             /\ a = "test_case" => selected_action.type = "testcase_excel"
             /\ selected_action.type \in
                  {"ask", "summary", "testcase_excel", "validate", "test_strategy", "risk"}
             /\ pc = "done" => result.type = selected_action.type /\ result.type # "test_case"

\* the classifier answered test_case and the run reports testcase_excel
C25_Witness ==
    /\ pc = "done"
    /\ args.force_type = None
    /\ Len(ClassifierCalls) = 1
    /\ ClassifierCalls[1].ret = "test_case"
    /\ result.type = "testcase_excel"

\* C26: "about" is retrieval query text only: the re-ranker, the classifier,
\* the prompt of the generation client and the query of the result get the
\* caller's query text, also when the fallback retrieval fired.
C26_FallbackTermStaysInRetrieval ==
    /\ \A i \in 1..Len(calls) :
         /\ calls[i].fn = "re_rank_cross_encoders" => calls[i].query = calls[1].prompt
         /\ calls[i].fn = "determine_action" => calls[i].user_query = calls[1].prompt
         /\ calls[i].fn \in {"call_llm", "call_llm_stream"} => calls[i].prompt = calls[1].prompt
         /\ (calls[i].fn = "query_collection" /\ i > 1) => calls[i].prompt = "about"
    /\ calls # <<>> => calls[1].prompt \in Queries /\ calls[1].prompt # "about"
    /\ pc # "idle" => args.query_text \in Queries
    /\ pc = "done" => result.query = calls[1].prompt

\* the fallback retrieval fired and re-ranker, classifier and generation
\* were all called
C26_Witness ==
    /\ pc = "done"
    /\ op = "run"
    /\ Len(RetrievalCalls) = 2
    /\ RetrievalCalls[2].prompt = "about"
    /\ Len(RerankCalls) = 1
    /\ Len(ClassifierCalls) = 1
    /\ GenerationCalls[1].prompt = "foo"
    /\ result.query = "foo"

TerminalEvents == SelectSeq(events, LAMBDA e : e.event \in {"done", "error"})

\* C28: a streamed response that has started ends with exactly one terminal
\* event, done or error, never both: no done event follows an error event
\* and nothing follows a done event.
C28_OneTerminalEvent ==
    /\ Len(TerminalEvents) <= 1
    /\ \A i \in 1..Len(events) :
         events[i].event \in {"done", "error"} => i = Len(events)
    /\ hpc = "closed" => Len(TerminalEvents) = 1

\* the token sequence has ended without raising
Terminated ==
    \/ hpc \in {"fallback", "finishing"}
    \/ hpc = "closed" /\ EventsOf("done") # <<>>

\* the handler has called run_rag_query
FallbackInvoked == hpc \in {"fallback", "finishing", "closed"} /\ op = "run"

\* no collaborator was called after the call that opened the token sequence
NothingAfterStream ==
    /\ op = "stream"
    /\ pc = "done"
    /\ result = hresult
    /\ Len(GenerationCalls) = 1
    /\ calls[Len(calls)].fn = "call_llm_stream"

\* C29 as stated: the fallback run_rag_query is invoked exactly when the
\* token sequence yielded no fragment, not when it yielded fragments that
\* are all empty strings; after a non-empty fragment nothing more is called.
C29_FallbackIffZeroFragments ==
    Terminated =>
        /\ FallbackInvoked <=> yielded = <<>>
        /\ Concat(yielded) # "" => NothingAfterStream

\* C29 amended: the fallback run_rag_query is invoked exactly when the text
\* of the delivered fragments is empty, which is when there was no fragment
\* or only empty ones; after a non-empty fragment nothing more is called.
C29_FallbackIffEmptyText ==
    /\ Terminated =>
         /\ FallbackInvoked <=> Concat(yielded) = ""
         /\ yielded = <<>> => FallbackInvoked
         /\ Concat(yielded) # "" => NothingAfterStream
    /\ FallbackInvoked => Terminated /\ args = hreq /\ Concat(yielded) = ""

\* one empty fragment was delivered, the fallback ran and its response is
\* the response of the done event
C29_Witness ==
    /\ hpc = "closed"
    /\ yielded = <<"">>
    /\ op = "run"
    /\ pc = "done"
    /\ Len(events) = 3
    /\ events[2] = _sse_event("token", [token |-> ""])
    /\ events[3].event = "done"
    /\ events[3].data.response = result.response
    /\ events[3].data.response # ""


\* a passage is a chunk the store holds for the user
StoredFor(passage, user) ==
    \E i \in 1..Len(collection) :
        /\ collection[i].document = passage.content
        /\ collection[i].metadata = passage.metadata
        /\ collection[i].metadata.user_id = user

\* C22: after any ingestions by any users, every passage query_collection
\* returns, by the similarity query or by its internal fallback, is a chunk
\* stored with the requesting user_id, and list_vector_sources(user_id)
\* holds only file names of chunks stored with that user_id, each once.
C22_RetrievalScopedToUser ==
    /\ (last.fn = "query_collection" /\ ~last.raised) =>
          \A k \in 1..Len(last.ret) : StoredFor(last.ret[k], last.user_id)
    /\ (last.fn = "search_documents" /\ ~last.raised) =>
          \A k \in 1..Len(last.body.results) : StoredFor(last.body.results[k], last.user_id)
    /\ last.fn = "list_vector_sources" =>
          /\ \A k \in 1..Len(last.ret) :
                \E i \in 1..Len(collection) :
                    /\ collection[i].metadata.user_id = last.user_id
                    /\ collection[i].metadata.file_name = last.ret[k]
          /\ \A j, k \in 1..Len(last.ret) : j # k => last.ret[j] # last.ret[k]

\* a user's two chunks came back through the internal fallback while the
\* store also holds a chunk of the other user
C22_Witness ==
    /\ last.fn = "query_collection"
    /\ ~last.raised
    /\ last.user_id = "mcp"
    /\ Len(last.ret) = 2
    /\ last.ret[1].distance = 0
    /\ \E i \in 1..Len(collection) : collection[i].metadata.user_id = "mcp_user"

\* C24: POST /api/query/search answers with the success payload {results,
\* query, count} of a search scoped to the request's user, count being the
\* number of results and at most top_k, and the MCP tool search_documents
\* gives the same payload for the same inputs.
C24_SearchReturnsResults ==
    /\ last.fn = "search" =>
          /\ last.status = 200
          /\ DOMAIN last.body = {"results", "query", "count"}
          /\ last.body.query = last.query
          /\ last.body.count = Len(last.body.results)
          /\ last.body.count <= last.top_k
          /\ \A k \in 1..Len(last.body.results) :
                last.body.results[k].metadata.user_id = last.user_id
    /\ (last.fn = "search_documents" /\ ~last.raised) =>
          /\ DOMAIN last.body = {"results", "query", "count"}
          /\ last.body.query = last.query
          /\ last.body.count = Len(last.body.results)
          /\ last.body.count <= last.top_k

\* the (user_id, file_name, index) triples of what has been ingested
IngestedTriples ==
    {<<p[1], p[2], k - 1>> : p \in {q \in DOMAIN ledger : ledger[q] # <<>>},
                             k \in {1, 2}}
IdOf(t) == Chunk(t[1], t[2], t[3], "").id

\* C30: chunk ids are injective in (user_id, file_name, index), so the
\* chunks last ingested for a (user_id, file_name) pair stay in the store
\* as ingested whatever is ingested for other pairs, and ingesting the same
\* splits for the same pair again leaves the store unchanged.
C30_IngestionKeepsPairsApart ==
    /\ \A t1, t2 \in IngestedTriples : t1 # t2 => IdOf(t1) # IdOf(t2)
    /\ \A p \in DOMAIN ledger :
          \A k \in 1..Len(ledger[p]) :
             \E i \in 1..Len(collection) :
                collection[i] = Chunk(p[1], p[2], k - 1, ledger[p][k])
    /\ \A p \in DOMAIN ledger :
          ledger[p] # <<>> =>
             add_to_vector_collection(collection, ledger[p], p[2], p[1]) = collection

====
